---- MODULE Spec2Model ----
(***************************************************************************)
(* Model of detect.py: real-time sign detection.                           *)
(*                                                                         *)
(*   SpecStartup  main() lines 94-111: load_labels, load_model, audio      *)
(*                init, camera open, for every file-system environment.    *)
(*   Spec         main() lines 113-192: the frame loop and the clean-up,   *)
(*                started from the states in which the start-up leaves     *)
(*                the program.                                             *)
(*   SpecNorm     preprocess_landmarks applied to bounded landmark sets.   *)
(*                                                                         *)
(* Units: timestamps are multiples of 0.05 s (0.75 s = 15), confidences    *)
(* and the --conf threshold are hundredths (0.80 = 80).                    *)
(***************************************************************************)
EXTENDS Integers, Sequences, FiniteSets, TLC

VARIABLES
    pc,               \* position in main()
    \* ---- environment and arguments
    model_path,       \* args.model
    files,            \* model files that exist on disk
    label_src,        \* the labels file: presence and content
    camera_ok,        \* cap.isOpened()
    mixer_ok,         \* pygame.mixer.init() succeeded
    conf,             \* args.conf
    no_audio,         \* args.no_audio
    \* ---- start-up results
    labels,           \* result of load_labels
    model,            \* path of the model file that was loaded, "" if none
    error,            \* the exception that ended main(), [type, names]
    \* ---- frame loop locals
    last_label,       \* <<>> is None, <<s>> is the string s
    last_change_time,
    last_frame_time,
    now,
    hand,             \* result.multi_hand_landmarks is non-empty
    landmarks,
    features,
    predicted_label,
    confidence,
    tts,              \* outcome of the last speak(): "none", "ok", "error"
    log,              \* the message printed by the start-up or by the current iteration, "" if none
    cap_released,
    audio_quit,
    \* ---- history (not read by any guard)
    trace,            \* steps of the current loop iteration, in order
    prev,             \* <<last_label, last_change_time>> when the iteration began
    idle_base,        \* <<last_label, last_change_time>> when the current run of no-hand frames began
    idle_frames,      \* length of the current run of no-hand frames, capped at MaxIdle
    commits,          \* <<label, time>> of every commit, in order
    scen              \* length of the scenario prefix fed so far, -1 if off it

vars == <<pc, model_path, files, label_src, camera_ok, mixer_ok, conf, no_audio,
          labels, model, error, last_label, last_change_time, last_frame_time,
          now, hand, landmarks, features, predicted_label, confidence, tts, log,
          cap_released, audio_quit, trace, prev, idle_base, idle_frames, commits, scen>>

envVars == <<model_path, files, label_src, camera_ok, mixer_ok, conf, no_audio>>
startVars == <<labels, model, error>>
loopVars == <<last_label, last_change_time, last_frame_time, now, hand, landmarks,
             features, predicted_label, confidence, tts, cap_released, audio_quit>>
histVars == <<trace, prev, idle_base, idle_frames, commits, scen>>

(***************************************************************************)
(* Bounds                                                                  *)
(***************************************************************************)
MaxTime == 34
MaxCoord == 2
MaxPoints == 2
MaxScale == 2
MaxClasses == 2
MaxShift == 1
MaxIdle == 2

(***************************************************************************)
(* Program constants                                                       *)
(***************************************************************************)
DEFAULT_MODEL == "model.keras"
h5_fallback == "model_v2.h5"
DEFAULT_CONF == 80
REFRACTORY == 15
ESC == 27

Abs(v) == IF v < 0 THEN 0 - v ELSE v

SetMax(S) == CHOOSE m \in S : \A v \in S : v <= m

(***************************************************************************)
(* str(i) for i >= 0                                                       *)
(***************************************************************************)
Digits == <<"0", "1", "2", "3", "4", "5", "6", "7", "8", "9">>

RECURSIVE Str(_)
Str(n) == IF n < 10 THEN Digits[n + 1] ELSE Str(n \div 10) \o Digits[(n % 10) + 1]

ascii_uppercase ==
    <<"A", "B", "C", "D", "E", "F", "G", "H", "I", "J", "K", "L", "M",
      "N", "O", "P", "Q", "R", "S", "T", "U", "V", "W", "X", "Y", "Z">>

(***************************************************************************)
(* load_labels.  A labels file is [exists, content, top, ctype, classes]:  *)
(*   content  "json" parses, "empty" and "garbage" make json.load raise    *)
(*   top      the parsed document: "object", "array" or "scalar"           *)
(*   ctype    data.get("classes"): "absent", "null", "string", "number",   *)
(*            "object" or "list"                                           *)
(*   classes  the elements when ctype is "list".  An element is a string;  *)
(*            the elements in NonStringItems stand for JSON values that    *)
(*            are not strings.                                             *)
(***************************************************************************)
NonStringItems == {"#7"}

DefaultLabels == [i \in 1..9 |-> Str(i)] \o ascii_uppercase

LabelsResult(exc, value) == [raised |-> exc, value |-> value]

load_labels(src) ==
    IF src.exists
      THEN IF src.content # "json"
             THEN LabelsResult("JSONDecodeError", <<>>)
           ELSE IF src.top # "object"
             THEN LabelsResult("AttributeError", <<>>)
           ELSE IF src.ctype = "list" /\ src.classes # <<>>
             THEN LabelsResult("", src.classes)
           ELSE LabelsResult("", DefaultLabels)
      ELSE LabelsResult("", DefaultLabels)

(***************************************************************************)
(* load_model: the path loaded, or the exception raised with the paths     *)
(* its message names.                                                      *)
(***************************************************************************)
ModelResult(exc, names, path) == [raised |-> exc, names |-> names, path |-> path]

load_model_FallbackFirst(path, existing) ==
    IF h5_fallback \in existing
      THEN ModelResult("", {}, h5_fallback)
    ELSE IF path \in existing
      THEN ModelResult("", {}, path)
    ELSE ModelResult("FileNotFoundError", {path}, "")

load_model(path, existing) ==
    IF path \notin existing
      THEN IF h5_fallback \in existing
             THEN ModelResult("", {}, h5_fallback)
             ELSE ModelResult("FileNotFoundError", {path}, "")
      ELSE ModelResult("", {}, path)

(***************************************************************************)
(* preprocess_landmarks.  A quotient val / max_val is kept as the pair     *)
(* <<val, max_val>>; a value that is not divided is <<val, 1>>.            *)
(***************************************************************************)
Flatten(points) ==
    [i \in 1..(2 * Len(points)) |-> points[(i + 1) \div 2][2 - (i % 2)]]

preprocess_landmarks_BaseTypo(lms) ==
    LET base_x == lms[1][1]
        base_y == lms[1][1]
        relative_landmarks == [i \in 1..Len(lms) |-> <<lms[i][1] - base_x, lms[i][2] - base_y>>]
        flattened == Flatten(relative_landmarks)
        max_val == SetMax({Abs(flattened[i]) : i \in 1..Len(flattened)})
    IN  IF max_val # 0
          THEN [i \in 1..Len(flattened) |-> <<flattened[i], max_val>>]
          ELSE [i \in 1..Len(flattened) |-> <<flattened[i], 1>>]

preprocess_landmarks(lms) ==
    LET base_x == lms[1][1]
        base_y == lms[1][2]
        relative_landmarks == [i \in 1..Len(lms) |-> <<lms[i][1] - base_x, lms[i][2] - base_y>>]
        flattened == Flatten(relative_landmarks)
        max_val == SetMax({Abs(flattened[i]) : i \in 1..Len(flattened)})
    IN  IF max_val # 0
          THEN [i \in 1..Len(flattened) |-> <<flattened[i], max_val>>]
          ELSE [i \in 1..Len(flattened) |-> <<flattened[i], 1>>]

(***************************************************************************)
(* Inputs                                                                  *)
(***************************************************************************)
Paths == {DEFAULT_MODEL, h5_fallback, "my_model.keras"}

Thresholds == {0 - 5, 0, DEFAULT_CONF}

Confidences == {60, 80, 95}

Items == {"A", "B", ""} \cup NonStringItems

Src(exists, content, top, ctype, classes) ==
    [exists |-> exists, content |-> content, top |-> top, ctype |-> ctype,
     classes |-> classes]

ClassLists == UNION {[1..n -> Items] : n \in 0..MaxClasses}

LabelSources ==
    {Src(FALSE, "empty", "scalar", "absent", <<>>)}
    \cup {Src(TRUE, c, "scalar", "absent", <<>>) : c \in {"empty", "garbage"}}
    \cup {Src(TRUE, "json", t, "absent", <<>>) : t \in {"array", "scalar"}}
    \cup {Src(TRUE, "json", "object", t, <<>>) :
            t \in {"absent", "null", "string", "number", "object"}}
    \cup {Src(TRUE, "json", "object", "list", cl) : cl \in ClassLists}

\* The labels file of the frame-loop runs: two signs and an empty class name.
LoopLabelSource == Src(TRUE, "json", "object", "list", <<"A", "B", "">>)

Coords == (0 - MaxCoord)..MaxCoord

Points == Coords \X Coords

LandmarkSets == UNION {[1..n -> Points] : n \in 1..MaxPoints}

\* The landmark sets the detector returns in the frame-loop runs.
LoopLandmarks == {<<<<1, 1>>>>, <<<<0, 0>>, <<2, 0 - 1>>>>}

RawKeys == {0 - 1, ESC, 113}

State == <<last_label, last_change_time>>

(***************************************************************************)
(* The locals of main() before the loop assigns them, and the history.     *)
(***************************************************************************)
LoopLocalsUnset ==
    /\ last_label = <<>>
    /\ last_change_time = 0
    /\ now = 0
    /\ hand = FALSE
    /\ landmarks = <<>>
    /\ features = <<>>
    /\ predicted_label = ""
    /\ confidence = 0
    /\ tts = "none"
    /\ cap_released = FALSE
    /\ audio_quit = FALSE
    /\ trace = <<>>
    /\ prev = <<<<>>, 0>>
    /\ idle_base = <<<<>>, 0>>
    /\ idle_frames = 0
    /\ commits = <<>>
    /\ scen = 0

(***************************************************************************)
(* Start-up: main() lines 94-115                                           *)
(***************************************************************************)
InitStartup ==
    /\ pc = "load_labels"
    /\ model_path \in Paths
    /\ files \in SUBSET Paths
    /\ label_src \in LabelSources
    /\ camera_ok \in BOOLEAN
    /\ mixer_ok \in BOOLEAN
    /\ conf \in Thresholds
    /\ no_audio \in BOOLEAN
    /\ labels = <<>>
    /\ model = ""
    /\ error = [type |-> "", names |-> {}]
    /\ last_frame_time = 0
    /\ log = ""
    /\ LoopLocalsUnset

LoadLabels ==
    /\ pc = "load_labels"
    /\ LET r == load_labels(label_src)
       IN  IF r.raised # ""
             THEN /\ error' = [type |-> r.raised, names |-> {}]
                  /\ pc' = "raised"
                  /\ UNCHANGED labels
             ELSE /\ labels' = r.value
                  /\ pc' = "load_model"
                  /\ UNCHANGED error
    /\ UNCHANGED <<envVars, model, loopVars, log, histVars>>

LoadModel ==
    /\ pc = "load_model"
    /\ LET r == load_model(model_path, files)
       IN  IF r.raised # ""
             THEN /\ error' = [type |-> r.raised, names |-> r.names]
                  /\ pc' = "raised"
                  /\ UNCHANGED model
             ELSE /\ model' = r.path
                  /\ pc' = "audio_init"
                  /\ UNCHANGED error
    /\ UNCHANGED <<envVars, labels, loopVars, log, histVars>>

AudioInit ==
    /\ pc = "audio_init"
    /\ log' = IF mixer_ok THEN log ELSE "Audio init warning"
    /\ pc' = "open_camera"
    /\ UNCHANGED <<envVars, startVars, loopVars, histVars>>

OpenCamera ==
    /\ pc = "open_camera"
    /\ IF camera_ok
         THEN /\ pc' = "loop_init"
              /\ UNCHANGED error
         ELSE /\ error' = [type |-> "RuntimeError", names |-> {}]
              /\ pc' = "raised"
    /\ UNCHANGED <<envVars, labels, model, loopVars, log, histVars>>

LoopInit ==
    /\ pc = "loop_init"
    /\ last_label' = <<>>
    /\ last_change_time' = 0
    /\ last_frame_time' \in 0..MaxTime
    /\ pc' = "read"
    /\ UNCHANGED <<envVars, startVars, now, hand, landmarks, features,
                   predicted_label, confidence, tts, cap_released, audio_quit,
                   log, histVars>>

NextStartup ==
    \/ LoadLabels
    \/ LoadModel
    \/ AudioInit
    \/ OpenCamera
    \/ LoopInit

SpecStartup == InitStartup /\ [][NextStartup]_vars

(***************************************************************************)
(* The frame loop: main() lines 113-192                                    *)
(***************************************************************************)
Init ==
    /\ pc = "read"
    /\ model_path = DEFAULT_MODEL
    /\ files = {DEFAULT_MODEL}
    /\ label_src = LoopLabelSource
    /\ camera_ok = TRUE
    /\ mixer_ok \in BOOLEAN
    /\ conf \in Thresholds
    /\ no_audio \in BOOLEAN
    /\ labels = load_labels(label_src).value
    /\ model = load_model(model_path, files).path
    /\ error = [type |-> "", names |-> {}]
    /\ last_frame_time \in 0..MaxTime
    /\ log = IF mixer_ok THEN "" ELSE "Audio init warning"
    /\ LoopLocalsUnset

Step(name) == trace' = Append(trace, name)

\* Lines 124-127: cap.read() fails, the iteration ends with `continue`.
ReadFail ==
    /\ pc = "read"
    /\ log' = "No frame captured from webcam."
    /\ trace' = <<"capture">>
    /\ prev' = State
    /\ pc' = "read"
    /\ UNCHANGED <<envVars, startVars, loopVars, idle_base, idle_frames, commits, scen>>

\* Lines 124-131: a frame is read and time.time() is taken.
ReadOk ==
    /\ pc = "read"
    /\ \E t \in last_frame_time..MaxTime :
         /\ now' = t
         /\ last_frame_time' = t
    /\ log' = ""
    /\ trace' = <<"capture">>
    /\ prev' = State
    /\ pc' = "detect"
    /\ UNCHANGED <<envVars, startVars, last_label, last_change_time, hand, landmarks,
                   features, predicted_label, confidence, tts, cap_released,
                   audio_quit, idle_base, idle_frames, commits, scen>>

Detect_SkipRender ==
    /\ pc = "detect"
    /\ \E h \in BOOLEAN :
         /\ hand' = h
         /\ pc' = IF h THEN "normalize" ELSE "waitKey"
         /\ idle_base' = IF ~h /\ idle_frames > 0 THEN idle_base ELSE State
         /\ idle_frames' = IF h THEN 0
                           ELSE IF idle_frames < MaxIdle THEN idle_frames + 1
                           ELSE idle_frames
    /\ predicted_label' = ""
    /\ confidence' = 0
    /\ Step("detect")
    /\ UNCHANGED <<envVars, startVars, last_label, last_change_time, last_frame_time,
                   now, landmarks, features, tts, log, cap_released, audio_quit,
                   prev, commits, scen>>

\* Lines 133-141: hands.process(), the per-frame defaults, the hand test.
Detect ==
    /\ pc = "detect"
    /\ \E h \in BOOLEAN :
         /\ hand' = h
         /\ pc' = IF h THEN "normalize" ELSE "render"
         /\ idle_base' = IF ~h /\ idle_frames > 0 THEN idle_base ELSE State
         /\ idle_frames' = IF h THEN 0
                           ELSE IF idle_frames < MaxIdle THEN idle_frames + 1
                           ELSE idle_frames
    /\ predicted_label' = ""
    /\ confidence' = 0
    /\ Step("detect")
    /\ UNCHANGED <<envVars, startVars, last_label, last_change_time, last_frame_time,
                   now, landmarks, features, tts, log, cap_released, audio_quit,
                   prev, commits, scen>>

\* Lines 142-144: extract_landmarks and preprocess_landmarks.
Normalize ==
    /\ pc = "normalize"
    /\ \E lms \in LoopLandmarks :
         /\ landmarks' = lms
         /\ features' = preprocess_landmarks(lms)
    /\ Step("normalize")
    /\ pc' = "classify"
    /\ UNCHANGED <<envVars, startVars, last_label, last_change_time, last_frame_time,
                   now, hand, predicted_label, confidence, tts, log, cap_released,
                   audio_quit, prev, idle_base, idle_frames, commits, scen>>

\* The debounce scenario: (label, confidence, timestamp).
Scenario ==
    << <<"A", 95, 0>>, <<"A", 95, 2>>, <<"B", 95, 4>>, <<"B", 95, 18>>, <<"B", 60, 30>> >>

\* Line 148: labels[idx] if idx < len(labels) else str(idx)
LabelOf(idx) == IF idx < Len(labels) THEN labels[idx + 1] ELSE Str(idx)

\* Lines 145-149: the classifier's answer is any index and any confidence.
Classify ==
    /\ pc = "classify"
    /\ \E idx \in 0..Len(labels), c \in Confidences :
         /\ predicted_label' = LabelOf(idx)
         /\ confidence' = c
         /\ scen' = IF scen >= 0 /\ scen < Len(Scenario)
                       /\ <<LabelOf(idx), c, now>> = Scenario[scen + 1]
                      THEN scen + 1 ELSE 0 - 1
    /\ Step("classify")
    /\ pc' = "render"
    /\ UNCHANGED <<envVars, startVars, last_label, last_change_time, last_frame_time,
                   now, hand, landmarks, features, tts, log, cap_released, audio_quit,
                   prev, idle_base, idle_frames, commits>>

\* Lines 151-175: the HUD and cv2.imshow.
Render ==
    /\ pc = "render"
    /\ Step("render")
    /\ pc' = "waitKey"
    /\ UNCHANGED <<envVars, startVars, loopVars, log, prev, idle_base, idle_frames,
                   commits, scen>>

\* Lines 176-178: cv2.waitKey(1) & 0xFF, Esc leaves the loop.
WaitKey ==
    /\ pc = "waitKey"
    /\ \E raw \in RawKeys :
         LET key == raw % 256
         IN  pc' = IF key = ESC THEN "release" ELSE "stabilize"
    /\ Step("waitKey")
    /\ UNCHANGED <<envVars, startVars, loopVars, log, prev, idle_base, idle_frames,
                   commits, scen>>

ShouldSpeak_StrictConf ==
    /\ ~no_audio /\ predicted_label # "" /\ confidence > conf
    /\ <<predicted_label>> # last_label /\ (now - last_change_time) > REFRACTORY

ShouldSpeak_NoRefractory ==
    /\ ~no_audio /\ predicted_label # "" /\ confidence >= conf
    /\ <<predicted_label>> # last_label

ShouldSpeak_WeakRefractory ==
    /\ ~no_audio /\ predicted_label # "" /\ confidence >= conf
    /\ <<predicted_label>> # last_label /\ (now - last_change_time) >= REFRACTORY

ShouldSpeak_AnyLabel ==
    /\ ~no_audio /\ confidence >= conf
    /\ <<predicted_label>> # last_label /\ (now - last_change_time) > REFRACTORY

\* Lines 181-182
ShouldSpeak ==
    /\ ~no_audio /\ predicted_label # "" /\ confidence >= conf
    /\ <<predicted_label>> # last_label /\ (now - last_change_time) > REFRACTORY

Stabilize ==
    /\ pc = "stabilize"
    /\ Step("stabilize")
    /\ pc' = IF ShouldSpeak THEN "speak" ELSE "read"
    /\ UNCHANGED <<envVars, startVars, loopVars, log, prev, idle_base, idle_frames,
                   commits, scen>>

Speak_DropsCommitOnError ==
    /\ pc = "speak"
    /\ \E outcome \in (IF mixer_ok THEN {"ok", "error"} ELSE {"error"}) :
         /\ tts' = outcome
         /\ log' = IF outcome = "error" THEN "TTS error" ELSE log
         /\ pc' = IF outcome = "error" THEN "read" ELSE "update"
    /\ Step("speak")
    /\ UNCHANGED <<envVars, startVars, last_label, last_change_time, last_frame_time,
                   now, hand, landmarks, features, predicted_label, confidence,
                   cap_released, audio_quit, prev, idle_base, idle_frames, commits, scen>>

\* Line 183 and speak(), lines 63-78: synthesis or playback may raise, the
\* exception is caught and printed.  Without a mixer, music.load always raises.
Speak ==
    /\ pc = "speak"
    /\ \E outcome \in (IF mixer_ok THEN {"ok", "error"} ELSE {"error"}) :
         /\ tts' = outcome
         /\ log' = IF outcome = "error" THEN "TTS error" ELSE log
    /\ pc' = "update"
    /\ Step("speak")
    /\ UNCHANGED <<envVars, startVars, last_label, last_change_time, last_frame_time,
                   now, hand, landmarks, features, predicted_label, confidence,
                   cap_released, audio_quit, prev, idle_base, idle_frames, commits, scen>>

\* Lines 184-185
Update ==
    /\ pc = "update"
    /\ last_label' = <<predicted_label>>
    /\ last_change_time' = now
    /\ commits' = Append(commits, <<predicted_label, now>>)
    /\ pc' = "read"
    /\ UNCHANGED <<envVars, startVars, last_frame_time, now, hand, landmarks, features,
                   predicted_label, confidence, tts, log, cap_released, audio_quit,
                   trace, prev, idle_base, idle_frames, scen>>

\* Lines 187-192
Release ==
    /\ pc = "release"
    /\ cap_released' = TRUE
    /\ audio_quit' = TRUE
    /\ pc' = "done"
    /\ UNCHANGED <<envVars, startVars, last_label, last_change_time, last_frame_time,
                   now, hand, landmarks, features, predicted_label, confidence, tts,
                   log, histVars>>

Next ==
    \/ ReadFail
    \/ ReadOk
    \/ Detect
    \/ Normalize
    \/ Classify
    \/ Render
    \/ WaitKey
    \/ Stabilize
    \/ Speak
    \/ Update
    \/ Release

Spec == Init /\ [][Next]_vars

(***************************************************************************)
(* preprocess_landmarks on its own                                         *)
(***************************************************************************)
InitNorm ==
    /\ pc = "normalize"
    /\ model_path = DEFAULT_MODEL
    /\ files = {DEFAULT_MODEL}
    /\ label_src = LoopLabelSource
    /\ camera_ok = TRUE
    /\ mixer_ok = TRUE
    /\ conf = DEFAULT_CONF
    /\ no_audio = FALSE
    /\ labels = load_labels(label_src).value
    /\ model = load_model(model_path, files).path
    /\ error = [type |-> "", names |-> {}]
    /\ last_frame_time = 0
    /\ log = ""
    /\ last_label = <<>>
    /\ last_change_time = 0
    /\ now = 0
    /\ hand = TRUE
    /\ landmarks \in LandmarkSets
    /\ features = <<>>
    /\ predicted_label = ""
    /\ confidence = 0
    /\ tts = "none"
    /\ cap_released = FALSE
    /\ audio_quit = FALSE
    /\ trace = <<"capture", "detect">>
    /\ prev = <<<<>>, 0>>
    /\ idle_base = <<<<>>, 0>>
    /\ idle_frames = 0
    /\ commits = <<>>
    /\ scen = 0

\* Line 144
Preprocess ==
    /\ pc = "normalize"
    /\ features' = preprocess_landmarks(landmarks)
    /\ Step("normalize")
    /\ pc' = "classify"
    /\ UNCHANGED <<envVars, startVars, last_label, last_change_time, last_frame_time,
                   now, hand, landmarks, predicted_label, confidence, tts, log,
                   cap_released, audio_quit, prev, idle_base, idle_frames, commits, scen>>

NextNorm == Preprocess

SpecNorm == InitNorm /\ [][NextNorm]_vars

(***************************************************************************)
(* Properties                                                              *)
(***************************************************************************)
Range(s) == {s[i] : i \in 1..Len(s)}

Did(name) == name \in Range(trace)

\* The iteration that just ended carried an observation and ran to its end.
ObservedIterationDone == pc = "read" /\ Did("classify") /\ Did("stabilize")

Announced == <<<<predicted_label>>, now>>

\* The three conditions of the transition rule, on the state the iteration began in.
RuleHolds ==
    /\ confidence >= conf
    /\ <<predicted_label>> # prev[1]
    /\ now - prev[2] > REFRACTORY

\* C1 as stated: after an iteration with an observation, whatever the
\* configuration and the label, the stabilizer state is (label, now) if the
\* three conditions held and is what it was otherwise.
C1_Original ==
    ObservedIterationDone =>
        IF RuleHolds THEN State = Announced ELSE State = prev

\* C1 amended: the state becomes (label, now) exactly when audio is enabled,
\* the label is not the empty string and the three conditions hold; otherwise
\* the state is what it was when the iteration began.
C1_CommitIff ==
    ObservedIterationDone =>
        IF ~no_audio /\ predicted_label # "" /\ RuleHolds
          THEN State = Announced /\ State # prev
          ELSE State = prev

C1_Witness ==
    /\ ObservedIterationDone
    /\ ~no_audio /\ predicted_label # "" /\ RuleHolds
    /\ confidence = conf
    /\ prev[1] # <<>>

\* C2 as stated: the scenario (threshold 0.80, audio on) ends with exactly
\* the commits ("A", 0.0) and ("B", 0.9).
C2_Original ==
    (scen = Len(Scenario) /\ pc = "read" /\ conf = DEFAULT_CONF /\ ~no_audio) =>
        commits = << <<"A", 0>>, <<"B", 18>> >>

ScenarioRun == scen >= 1 /\ conf = DEFAULT_CONF /\ ~no_audio

\* C2 amended: in the scenario the first three observations do not commit
\* (at t = 0.0 no time has elapsed since the initial timestamp 0), the fourth
\* commits ("B", 0.9) and the fifth does not: exactly one commit.
C2_ScenarioCommits ==
    ScenarioRun =>
        /\ scen \in 1..3 => commits = <<>>
        /\ scen = 4 =>
             \/ commits = << <<"B", 18>> >>
             \/ /\ commits = <<>>
                /\ now = 18
                /\ pc \in {"render", "waitKey", "stabilize", "speak", "update",
                           "release", "done"}
        /\ scen = 5 => commits = << <<"B", 18>> >>

C2_Witness == ScenarioRun /\ scen = Len(Scenario) /\ pc = "read" /\ Did("stabilize")

\* C3: consecutive commits are more than the refractory interval apart.
C3_CommitSpacing ==
    \A i \in 1..(Len(commits) - 1) : commits[i + 1][2] - commits[i][2] > REFRACTORY

C3_Witness ==
    /\ Len(commits) >= 2
    /\ commits[2][2] - commits[1][2] = REFRACTORY + 1
    /\ commits[1][1] # commits[2][1]

\* C4: during and after a no-hand frame, and over a whole run of them, the
\* stabilizer state is what it was and speech is not invoked.
C4_NoHandNoCommit ==
    (Did("detect") /\ ~hand) =>
        /\ State = prev
        /\ State = idle_base
        /\ ~Did("speak")
        /\ pc \notin {"speak", "update"}
        /\ predicted_label = ""

C4_Witness ==
    /\ pc = "read" /\ Did("stabilize") /\ ~hand
    /\ idle_frames >= 2
    /\ conf <= 0 /\ ~no_audio
    /\ last_label # <<>>
    /\ now - last_change_time > REFRACTORY

\* C5 as stated: every iteration, also one whose capture failed, has checked
\* the exit key by the time the next one begins.
C5_KeyCheckedEveryIteration ==
    (pc = "read" /\ trace # <<>>) => Did("waitKey")

\* C6 as stated: when speech is attempted the state already is (label, now).
C6_Original ==
    (pc = "speak" \/ Did("speak")) => State = Announced

\* C6 amended: the state is updated right after the speech attempt returns,
\* whether it succeeded or failed; a failure is printed as a warning, the loop
\* goes on to the next iteration and the state is the committed (label, now).
C6_SpeechFailureKeepsCommit ==
    /\ pc = "speak" => State = prev
    /\ Did("speak") =>
         /\ pc \in {"update", "read"}
         /\ tts = "error" => log = "TTS error"
         /\ pc = "update" => State = prev
         /\ pc = "read" => (State = Announced /\ commits[Len(commits)] = <<predicted_label, now>>)

C6_Witness == pc = "read" /\ Did("speak") /\ tts = "error" /\ State = Announced /\ State # prev

\* C7 as stated: with both files absent the error names both paths.
C7_Original ==
    (pc = "raised" /\ error.type = "FileNotFoundError") =>
        error.names = {model_path, h5_fallback}

\* C7 amended: primary if present, else the fallback if present, else a
\* FileNotFoundError whose message names the primary path only.
C7_ResolutionOrder ==
    /\ (pc \notin {"load_labels", "load_model"} /\ error.type \notin {"JSONDecodeError", "AttributeError"}) =>
         IF model_path \in files
           THEN model = model_path /\ error.type # "FileNotFoundError"
         ELSE IF h5_fallback \in files
           THEN model = h5_fallback /\ error.type # "FileNotFoundError"
         ELSE /\ pc = "raised"
              /\ model = ""
              /\ error = [type |-> "FileNotFoundError", names |-> {model_path}]
    /\ error.type = "FileNotFoundError" => (model_path \notin files /\ h5_fallback \notin files)

C7_Witness ==
    /\ pc = "raised" /\ error.type = "FileNotFoundError"
    /\ model_path # h5_fallback
    /\ files # {}

IsStringList(cl) == cl # <<>> /\ \A i \in 1..Len(cl) : cl[i] \notin NonStringItems

WellFormed(src) ==
    /\ src.exists /\ src.content = "json" /\ src.top = "object" /\ src.ctype = "list"
    /\ IsStringList(src.classes)

\* C8 as stated: load_labels never raises, returns the classes of a
\* well-formed file and the default vocabulary for every other source.
C8_NeverFails ==
    pc # "load_labels" =>
        /\ error.type \notin {"JSONDecodeError", "AttributeError"}
        /\ labels = IF WellFormed(label_src) THEN label_src.classes ELSE DefaultLabels

Shift(lms, dx, dy) == [i \in 1..Len(lms) |-> <<lms[i][1] + dx, lms[i][2] + dy>>]

Scale(lms, k) == [i \in 1..Len(lms) |-> <<lms[i][1] * k, lms[i][2] * k>>]

\* a[1] / a[2] = b[1] / b[2], component by component
SameRatios(a, b) ==
    /\ Len(a) = Len(b)
    /\ \A i \in 1..Len(a) : a[i][1] * b[i][2] = b[i][1] * a[i][2]

Degenerate(lms) == \A i \in 1..Len(lms) : lms[i] = lms[1]

\* C9: the features of a landmark set are those of every shifted and of
\* every scaled copy; coinciding points give the all-zero vector.
C9_Invariance ==
    pc = "classify" =>
        /\ Len(features) = 2 * Len(landmarks)
        /\ \A dx \in (0 - MaxShift)..MaxShift, dy \in (0 - MaxShift)..MaxShift :
             SameRatios(preprocess_landmarks(Shift(landmarks, dx, dy)), features)
        /\ \A k \in 1..MaxScale :
             SameRatios(preprocess_landmarks(Scale(landmarks, k)), features)
        /\ Degenerate(landmarks) => \A i \in 1..Len(features) : features[i] = <<0, 1>>

C9_Witness ==
    /\ pc = "classify"
    /\ Len(landmarks) = 2
    /\ landmarks[1] = <<1, 0 - 1>>
    /\ features = << <<0, 2>>, <<0, 2>>, <<0 - 2, 2>>, <<1, 2>> >>

\* C10 as stated: a frame is rendered only after its stabilizer decision.
C10_Original == Did("render") => Did("stabilize")

Prefixes(s) == {SubSeq(s, 1, n) : n \in 0..Len(s)}

IterationOrders ==
    {<<"capture", "detect">> \o mid \o <<"render", "waitKey", "stabilize">> \o tail :
        mid \in {<<>>, <<"normalize", "classify">>}, tail \in {<<>>, <<"speak">>}}

\* C10 amended: the steps of an iteration run in the order capture, detect,
\* normalize, classify, render, exit-key check, stabilize, (maybe) speak; the
\* stabilizer decision and the speech of a frame complete before the next
\* frame is captured, and a captured frame with an observation reaches the
\* stabilizer unless the exit key ends its iteration.
C10_StepOrder ==
    /\ \E o \in IterationOrders : trace \in Prefixes(o)
    /\ Did("classify") <=> (Did("detect") /\ hand /\ pc \notin {"normalize", "classify"})
    /\ (pc = "read" /\ Len(trace) > 1) => (Did("render") /\ Did("waitKey") /\ Did("stabilize"))
    /\ (pc \in {"release", "done"}) => trace[Len(trace)] = "waitKey"

C10_Witness == pc = "read" /\ Did("classify") /\ Did("speak") /\ Len(commits) = 2

====
